---- MODULE Spec2Model ----
(***************************************************************************)
(* Expression nodes of the Emojicode compiler (Compiler/AST/ASTExpr.hpp):  *)
(* the ASTExpr base contract (result type, temporariness), the ASTCall     *)
(* error contract, insertNode, the unary forwarding contract, the concrete *)
(* node kinds of the header and the ASTArguments container.                *)
(*                                                                         *)
(* A syntax tree is an arena: `nodes` is a sequence of node records, a     *)
(* std::shared_ptr<ASTExpr> is the index of the node it owns (NoNode for   *)
(* an empty pointer), `root` is the pointer the enclosing statement holds. *)
(* The bodies of analyse, analyseMemoryFlow, generate, handleResult,       *)
(* producesTemporaryObject and ensureErrorIsHandled are not part of the    *)
(* header; they follow the header's documentation comments and the         *)
(* specification text.                                                     *)
(***************************************************************************)
EXTENDS Integers, Sequences, FiniteSets, TLC

VARIABLES
    nodes,                  \* the arena of expression nodes
    root,                   \* the shared_ptr<ASTExpr> owned by the statement
    temporaries,            \* FunctionCodeGenerator's end-of-statement release list
    genericArguments_,      \* ASTArguments::genericArguments_
    arguments_,             \* ASTArguments::arguments_
    genericArgumentsTypes_, \* ASTArguments::genericArgumentsTypes_
    mood_,                  \* ASTArguments::mood_
    typesPassed,            \* <<v>>: the latest setGenericArgumentTypes was given v
    ret                     \* what the most recent call returned

vars == <<nodes, root, temporaries, genericArguments_, arguments_,
          genericArgumentsTypes_, mood_, typesPassed, ret>>

nodeVars == <<nodes, root, temporaries>>
argVars == <<genericArguments_, arguments_, genericArgumentsTypes_, mood_, typesPassed>>

----------------------------------------------------------------------------
(* Bounds *)

\* wrapping nodes insertNode may add to the tree
MaxInserts == 1
\* generic arguments of an argument list (syntax nodes, and length of a types vector)
MaxGenericArgs == 2
\* positional arguments of an argument list
MaxArguments == 1

----------------------------------------------------------------------------
(* Values *)

\* an empty std::shared_ptr<ASTExpr>
NoNode == 0

\* llvm::Value* : the default of errorDest_, and one caller-allocated slot
nullptr == "nullptr"
Pointers == {nullptr, "errorSlot"}

\* Type: Type::noReturn(), a fixed-size value type, a managed (reference-counted) type
noReturn == "noReturn"
Types == {noReturn, "integer", "object"}
ValueTypes == {"integer", "object"}

isManaged(type) == type = "object"

\* MFFlowCategory
FlowCategories == {"Borrowing", "Escaping"}

\* Mood
Moods == {"Imperative", "Interrogative"}

\* SourcePosition
Positions == {"p1", "p2"}

CallKinds == {"ASTCallableCall", "ASTSuper"}
LeafKinds == {"ASTSizeOf", "ASTTypeAsValue", "ASTSuper"}
WrapperKinds == {"ASTUnary", "ASTUnaryMFForwarding"}
Kinds == CallKinds \cup LeafKinds \cup WrapperKinds \cup {"ASTConditionalAssignment"}

Phases == {"new", "analysed", "flow", "generated", "faulted", "aborted"}

----------------------------------------------------------------------------
(* Construction *)

\* ASTExpr(p): ASTNode(p), isTemporary_ = true, expressionType_ = Type::noReturn()
ASTExprBrokenDefaults(kind, p) ==
    [kind |-> kind, position |-> p, isTemporary_ |-> FALSE,
     expressionType_ |-> noReturn, phase |-> "new"]

ASTExpr(kind, p) ==
    [kind |-> kind, position |-> p, isTemporary_ |-> TRUE,
     expressionType_ |-> noReturn, phase |-> "new"]

\* ASTCall(p): ASTExpr(p), handledError_ = false, errorDest_ = nullptr
ASTCall(kind, p) ==
    ASTExpr(kind, p) @@ [handledError_ |-> FALSE, errorDest_ |-> nullptr]

\* The members every node record carries so that the arena is uniform: a node
\* that is no call never has its handledError_/errorDest_ touched, a node
\* without a child has expr_ = NoNode, errorProne is read by ASTSuper alone
\* and args by ASTCallableCall alone.
Node(base, expr, errorProne, args) ==
    base @@ [expr_ |-> expr, errorProne |-> errorProne, args |-> args,
             handledError_ |-> FALSE, errorDest_ |-> nullptr]

\* ASTUnary(value, p): ASTExpr(p), expr_(std::move(value))
ASTUnary(kind, value, p) == Node(ASTExpr(kind, p), value, FALSE, <<>>)

\* ASTTypeAsValue(type, tokenType, p), ASTSizeOf(type, p)
ASTTypeAsValue(p) == Node(ASTExpr("ASTTypeAsValue", p), NoNode, FALSE, <<>>)
ASTSizeOf(p) == Node(ASTExpr("ASTSizeOf", p), NoNode, FALSE, <<>>)

\* ASTCallableCall(value, args, p): ASTCall(p), callable_(value), args_(args)
ASTCallableCall(value, args, p) ==
    Node(ASTCall("ASTCallableCall", p), value, FALSE, args)

\* ASTSuper(name, args, p): ASTCall(p); errorProne is what the resolved
\* superclass member declares
ASTSuper(errorProne, p) == Node(ASTCall("ASTSuper", p), NoNode, errorProne, <<>>)

\* ASTConditionalAssignment(varName, expr, p): ASTExpr(p), expr_(expr)
ASTConditionalAssignment(expr, p) ==
    Node(ASTExpr("ASTConditionalAssignment", p), expr, FALSE, <<>>)

----------------------------------------------------------------------------
(* ASTExpr *)

Ids(ns) == DOMAIN ns

expressionType(ns, n) == ns[n].expressionType_

setExpressionTypeResetsTemporary(ns, n, type) ==
    [ns EXCEPT ![n].expressionType_ = type, ![n].isTemporary_ = TRUE]

setExpressionType(ns, n, type) == [ns EXCEPT ![n].expressionType_ = type]

isTemporary(ns, n) == ns[n].isTemporary_

IsForwarding(ns, n) == ns[n].kind = "ASTUnaryMFForwarding"

\* ASTUnaryMFForwarding::unsetIsTemporaryPost is expr_->unsetIsTemporary();
\* ASTExpr::unsetIsTemporaryPost does nothing
RECURSIVE unsetIsTemporary(_, _)
unsetIsTemporaryPostNoForward(ns, n) == ns

unsetIsTemporaryPost(ns, n) ==
    IF IsForwarding(ns, n) THEN unsetIsTemporary(ns, ns[n].expr_) ELSE ns

unsetIsTemporaryToggle(ns, n) ==
    unsetIsTemporaryPost([ns EXCEPT ![n].isTemporary_ = ~ns[n].isTemporary_], n)

unsetIsTemporary(ns, n) ==
    unsetIsTemporaryPost([ns EXCEPT ![n].isTemporary_ = FALSE], n)

\* virtual void mutateReference(ExpressionAnalyser *) {}
mutateReference(ns, n) == ns

\* isTemporary_ && expressionType().isManaged()
producesTemporaryObject(ns, n) ==
    isTemporary(ns, n) /\ isManaged(expressionType(ns, n))

----------------------------------------------------------------------------
(* ASTCall *)

IsCall(ns, n) == ns[n].kind \in CallKinds

\* ASTCallableCall: bool isErrorProne() const override { return false; }
ASTCallableCall_isErrorProneOfCallee(ns, n) == ns[ns[n].expr_].errorProne

ASTCallableCall_isErrorProne(ns, n) == FALSE

\* ASTSuper::isErrorProne: what the resolved superclass member declares
ASTSuper_isErrorProne(ns, n) == ns[n].errorProne

\* virtual bool isErrorProne() const = 0
isErrorProne(ns, n) ==
    IF ns[n].kind = "ASTCallableCall"
        THEN ASTCallableCall_isErrorProne(ns, n)
        ELSE ASTSuper_isErrorProne(ns, n)

\* ASTCallableCall: errorType() { return callable_->expressionType(); }
ASTCallableCall_errorType(ns, n) == expressionType(ns, ns[n].expr_)

\* ASTSuper::errorType: the error type, or no return if the call cannot fail
ASTSuper_errorType(ns, n) == IF ns[n].errorProne THEN "object" ELSE noReturn

\* virtual const Type& errorType() const = 0
errorType(ns, n) ==
    IF ns[n].kind = "ASTCallableCall"
        THEN ASTCallableCall_errorType(ns, n)
        ELSE ASTSuper_errorType(ns, n)

setHandledError(ns, n) == [ns EXCEPT ![n].handledError_ = TRUE]

setErrorPointerForgetsHandled(ns, n, errorDest) ==
    [ns EXCEPT ![n].errorDest_ = errorDest, ![n].handledError_ = FALSE]

setErrorPointer(ns, n, errorDest) == [ns EXCEPT ![n].errorDest_ = errorDest]

errorPointer(ns, n) == ns[n].errorDest_

\* TRUE when the obligation is met; FALSE stands for the unhandled-error fault
ensureErrorIsHandled(ns, n) ==
    ~(isErrorProne(ns, n) /\ ~ns[n].handledError_ /\ errorPointer(ns, n) = nullptr)

----------------------------------------------------------------------------
(* insertNode *)

\* A slot is a std::shared_ptr<ASTExpr>*: 0 is the statement's pointer (root),
\* s > 0 is the expr_ member of node s.
Slots(ns) == {0} \cup {s \in Ids(ns) : ns[s].expr_ # NoNode}

Deref(ns, rt, slot) == IF slot = 0 THEN rt ELSE ns[slot].expr_

\* How many shared_ptr<ASTExpr> of the tree refer to node n
Refs(ns, rt, n) ==
    (IF rt = n THEN 1 ELSE 0) + Cardinality({m \in Ids(ns) : ns[m].expr_ = n})

\* A copy instead of a move, and no assignment to *node
insertNodeKeepsSlot(ns, rt, slot, T) ==
    LET pos == ns[Deref(ns, rt, slot)].position
        w == Len(ns) + 1
    IN  [nodes |-> Append(ns, ASTUnary(T, Deref(ns, rt, slot), pos)),
         root |-> rt, ret |-> w]

\* auto pos = (*node)->position();
\* *node = std::make_shared<T>(std::move(*node), pos, args...);
\* return std::static_pointer_cast<T>(*node);
insertNode(ns, rt, slot, T) ==
    LET pos == ns[Deref(ns, rt, slot)].position
        w == Len(ns) + 1
        made == Append(ns, ASTUnary(T, Deref(ns, rt, slot), pos))
    IN  [nodes |-> IF slot = 0 THEN made ELSE [made EXCEPT ![slot].expr_ = w],
         root |-> IF slot = 0 THEN w ELSE rt,
         ret |-> w]

----------------------------------------------------------------------------
(* The three passes *)

\* The types the analyser gives a node of a kind: a size is an integer, the
\* outcome of a conditional binding a boolean; the other kinds produce a value
\* of either sort.
ResultTypes(kind) ==
    IF kind \in {"ASTSizeOf", "ASTConditionalAssignment"}
        THEN {"integer"}
        ELSE ValueTypes

\* The type analyse computes for node n
ASTSizeOf_analyseManaged(ns, n) == "object"

ASTSizeOf_analyse(ns, n) == "integer"

ResolvedType(ns, n) ==
    CASE ns[n].kind = "ASTSizeOf" -> ASTSizeOf_analyse(ns, n)
      [] ns[n].kind = "ASTConditionalAssignment" -> "integer"
      [] ns[n].kind \in WrapperKinds -> expressionType(ns, ns[n].expr_)
      [] OTHER -> "object"

\* analyse: the sub-expression first, then the node's own checks, the error
\* obligation near the end, and the result type recorded. A fault is an
\* exception: it leaves the faulting node "faulted" and every enclosing
\* analyse "aborted".
RECURSIVE analyse(_, _)
analyse(ns, n) ==
    LET c == ns[n].expr_
        ns1 == IF c # NoNode /\ ns[c].phase = "new" THEN analyse(ns, c) ELSE ns
    IN  IF c # NoNode /\ ns1[c].phase \in {"faulted", "aborted"}
            THEN [ns1 EXCEPT ![n].phase = "aborted"]
        ELSE IF IsCall(ns1, n) /\ ~ensureErrorIsHandled(ns1, n)
            THEN [ns1 EXCEPT ![n].phase = "faulted"]
        ELSE [setExpressionType(ns1, n, ResolvedType(ns1, n))
                 EXCEPT ![n].phase = "analysed"]

\* MFFunctionAnalyser::take: an escaping value is not released by the statement
take(ns, n, type) == IF type = "Escaping" THEN unsetIsTemporary(ns, n) ELSE ns

RECURSIVE analyseMemoryFlow(_, _, _)
analyseMemoryFlow(ns, n, type) ==
    LET c == ns[n].expr_
        k == ns[n].kind
        done == [ns EXCEPT ![n].phase = "flow"]
        sub(ns0, category) ==
            IF c # NoNode /\ ns0[c].phase = "analysed"
                THEN analyseMemoryFlow(ns0, c, category)
                ELSE ns0
    IN  CASE k \in {"ASTSizeOf", "ASTTypeAsValue"} -> done
          [] k = "ASTUnaryMFForwarding" -> sub(done, type)
          [] k = "ASTConditionalAssignment" ->
                sub(unsetIsTemporary(done, c), "Escaping")
          [] k = "ASTCallableCall" -> sub(take(done, n, type), "Escaping")
          [] k = "ASTUnary" -> sub(take(done, n, type), "Borrowing")
          [] OTHER -> take(done, n, type)

\* handleResult: registers the value for release if the node is temporary and
\* its type managed; returns result
handleResultAlways(ns, fg, n, result) ==
    [fg |-> Append(fg, result), ret |-> result]

handleResult(ns, fg, n, result) ==
    [fg |-> IF isTemporary(ns, n) /\ isManaged(expressionType(ns, n))
                THEN Append(fg, result)
                ELSE fg,
     ret |-> result]

\* The kinds whose generate passes the node's value to handleResult: not a
\* size (never a managed value), not a forwarding node (its expr_ releases)
RoutesResult(kind) == kind \notin {"ASTSizeOf", "ASTUnaryMFForwarding"}

\* generate: the sub-expression first; the value of a node is named by the
\* node that made it, a forwarding node hands on the value of its expr_.
RECURSIVE generate(_, _, _)
generate(ns, fg, n) ==
    LET c == ns[n].expr_
        sub == IF c # NoNode /\ ns[c].phase = "flow"
                   THEN generate(ns, fg, c)
                   ELSE [nodes |-> ns, fg |-> fg, value |-> c]
        ns1 == [sub.nodes EXCEPT ![n].phase = "generated"]
    IN  IF RoutesResult(ns[n].kind)
            THEN LET h == handleResult(ns1, sub.fg, n, n)
                 IN  [nodes |-> ns1, fg |-> h.fg, value |-> h.ret]
            ELSE [nodes |-> ns1, fg |-> sub.fg,
                  value |-> IF IsForwarding(ns, n) THEN sub.value ELSE n]

----------------------------------------------------------------------------
(* The tree handed to the passes *)

\* The argument lists of a callable invocation, by the types of the arguments
ArgLists == {<<>>, <<"integer">>, <<"object", "integer">>}

InitTrees ==
    {<<ASTSizeOf("p1")>>, <<ASTTypeAsValue("p1")>>,
     <<ASTSuper(FALSE, "p1")>>, <<ASTSuper(TRUE, "p1")>>}
    \cup {<<ASTConditionalAssignment(2, "p1"), leaf>> :
             leaf \in {ASTTypeAsValue("p2"), ASTSuper(TRUE, "p2")}}
    \cup {<<ASTCallableCall(2, args, "p1"), leaf>> :
             args \in ArgLists,
             leaf \in {ASTTypeAsValue("p2"), ASTSuper(TRUE, "p2")}}

\* What a call returned: the call, and the node (insertNode's handle,
\* generate's value) or the Type (analyse) it returned
Ret(op, n, type) == [op |-> op, node |-> n, type |-> type]

void == Ret("void", NoNode, noReturn)

InitArguments ==
    /\ genericArguments_ = <<>>
    /\ arguments_ = <<>>
    /\ genericArgumentsTypes_ = <<>>
    /\ mood_ = "Imperative"
    /\ typesPassed = <<>>

Init ==
    /\ nodes \in InitTrees
    /\ root = 1
    /\ temporaries = <<>>
    /\ InitArguments
    /\ ret = void

----------------------------------------------------------------------------
(* Operations on the tree, called in the order of the passes. Each pass walks
   the whole tree from the statement's node and completes before the next
   begins. insertNode wraps an expression that has been analysed, and the
   node it makes is analysed on its own. The result type is set after
   semantic analysis; the statement, which holds the root, calls
   unsetIsTemporary on it during the memory flow pass (inner nodes are
   reached by their parents' analyseMemoryFlow and by forwarding); the error
   obligation is settled and the error destination provided before the memory
   flow pass. *)

\* An unhandled-error fault ends the compilation
Halted == \E n \in Ids(nodes) : nodes[n].phase = "faulted"

RECURSIVE Subtree(_, _)
Subtree(ns, n) ==
    IF n = NoNode THEN {} ELSE {n} \cup Subtree(ns, ns[n].expr_)

\* The node whose expr_ owns n, NoNode for the node the statement owns
Parent(ns, n) ==
    IF \E m \in Ids(ns) : ns[m].expr_ = n
        THEN CHOOSE m \in Ids(ns) : ns[m].expr_ = n
        ELSE NoNode

Inserted == Cardinality({n \in Ids(nodes) : nodes[n].kind \in WrapperKinds})

SetExpressionType(n, type) ==
    /\ ~Halted
    /\ nodes[n].phase = "analysed"
    /\ type \in ResultTypes(nodes[n].kind)
    /\ nodes' = setExpressionType(nodes, n, type)
    /\ ret' = void
    /\ UNCHANGED <<root, temporaries, argVars>>

UnsetIsTemporary(n) ==
    /\ ~Halted
    /\ n = root
    /\ nodes[n].phase \in {"analysed", "flow"}
    /\ nodes' = unsetIsTemporary(nodes, n)
    /\ ret' = void
    /\ UNCHANGED <<root, temporaries, argVars>>

MutateReference(n) ==
    /\ ~Halted
    /\ nodes[n].phase \in {"new", "analysed"}
    /\ nodes' = mutateReference(nodes, n)
    /\ ret' = void
    /\ UNCHANGED <<root, temporaries, argVars>>

SetHandledError(n) ==
    /\ ~Halted
    /\ IsCall(nodes, n)
    /\ nodes[n].phase \in {"new", "analysed"}
    /\ nodes' = setHandledError(nodes, n)
    /\ ret' = void
    /\ UNCHANGED <<root, temporaries, argVars>>

SetErrorPointer(n, errorDest) ==
    /\ ~Halted
    /\ IsCall(nodes, n)
    /\ nodes[n].phase \in {"new", "analysed"}
    /\ nodes' = setErrorPointer(nodes, n, errorDest)
    /\ ret' = void
    /\ UNCHANGED <<root, temporaries, argVars>>

InsertNode(slot, T) ==
    /\ ~Halted
    /\ Inserted < MaxInserts
    /\ \A m \in Ids(nodes) : nodes[m].phase \in {"new", "analysed"}
    /\ nodes[Deref(nodes, root, slot)].phase = "analysed"
    /\ LET r == insertNode(nodes, root, slot, T)
       IN  /\ nodes' = r.nodes
           /\ root' = r.root
           /\ ret' = Ret("insertNode", r.ret, noReturn)
    /\ UNCHANGED <<temporaries, argVars>>

Analyse(n) ==
    /\ ~Halted
    /\ nodes[n].phase = "new"
    /\ Parent(nodes, n) # NoNode => nodes[Parent(nodes, n)].phase # "new"
    /\ nodes' = analyse(nodes, n)
    /\ ret' = Ret("analyse", NoNode, expressionType(nodes', n))
    /\ UNCHANGED <<root, temporaries, argVars>>

AnalyseMemoryFlow(n, type) ==
    /\ ~Halted
    /\ n = root
    /\ \A d \in Subtree(nodes, n) : nodes[d].phase = "analysed"
    /\ nodes' = analyseMemoryFlow(nodes, n, type)
    /\ ret' = void
    /\ UNCHANGED <<root, temporaries, argVars>>

Generate(n) ==
    /\ ~Halted
    /\ n = root
    /\ nodes[n].phase = "flow"
    /\ LET g == generate(nodes, temporaries, n)
       IN  /\ nodes' = g.nodes
           /\ temporaries' = g.fg
           /\ ret' = Ret("generate", g.value, noReturn)
    /\ UNCHANGED <<root, argVars>>

Next ==
    \/ \E n \in Ids(nodes), type \in ValueTypes : SetExpressionType(n, type)
    \/ \E n \in Ids(nodes) : UnsetIsTemporary(n)
    \/ \E n \in Ids(nodes) : MutateReference(n)
    \/ \E n \in Ids(nodes) : SetHandledError(n)
    \/ \E n \in Ids(nodes), errorDest \in Pointers : SetErrorPointer(n, errorDest)
    \/ \E slot \in Slots(nodes), T \in WrapperKinds : InsertNode(slot, T)
    \/ \E n \in Ids(nodes) : Analyse(n)
    \/ \E n \in Ids(nodes), type \in FlowCategories : AnalyseMemoryFlow(n, type)
    \/ \E n \in Ids(nodes) : Generate(n)

Spec == Init /\ [][Next]_vars

----------------------------------------------------------------------------
(* ASTArguments *)

\* ASTType syntax nodes, argument expressions
TypeNodes == {"tA", "tB"}
ArgExprs == {"x", "y"}

TypeVectors == UNION {[1..k -> ValueTypes] : k \in 0..MaxGenericArgs}

\* genericArguments_.emplace_back(std::move(type))
addGenericArgument(ga, type) == Append(ga, type)

\* arguments_.emplace_back(arg)
addArguments(args, arg) == Append(args, arg)

\* mood_ = mood
setMood(m, mood) == mood

setGenericArgumentTypesAppends(gat, types) == gat \o types

\* genericArgumentsTypes_ = std::move(types)
setGenericArgumentTypes(gat, types) == types

AddGenericArgument(type) ==
    /\ Len(genericArguments_) < MaxGenericArgs
    /\ genericArguments_' = addGenericArgument(genericArguments_, type)
    /\ UNCHANGED <<genericArgumentsTypes_, arguments_, mood_, typesPassed,
                   nodeVars, ret>>

AddArguments(arg) ==
    /\ Len(arguments_) < MaxArguments
    /\ arguments_' = addArguments(arguments_, arg)
    /\ UNCHANGED <<genericArguments_, genericArgumentsTypes_, mood_, typesPassed,
                   nodeVars, ret>>

SetMood(mood) ==
    /\ mood_' = setMood(mood_, mood)
    /\ UNCHANGED <<genericArguments_, genericArgumentsTypes_, arguments_, typesPassed,
                   nodeVars, ret>>

\* The caller passes the resolved type of every generic argument
SetGenericArgumentTypes(types) ==
    /\ Len(types) = Len(genericArguments_)
    /\ genericArgumentsTypes_' = setGenericArgumentTypes(genericArgumentsTypes_, types)
    /\ typesPassed' = <<types>>
    /\ UNCHANGED <<genericArguments_, arguments_, mood_, nodeVars, ret>>

InitArgs ==
    /\ nodes = <<ASTCallableCall(2, <<>>, "p1"), ASTTypeAsValue("p2")>>
    /\ root = 1
    /\ temporaries = <<>>
    /\ InitArguments
    /\ ret = void

NextArgs ==
    \/ \E type \in TypeNodes : AddGenericArgument(type)
    \/ \E arg \in ArgExprs : AddArguments(arg)
    \/ \E mood \in Moods : SetMood(mood)
    \/ \E types \in TypeVectors : SetGenericArgumentTypes(types)

SpecArgs == InitArgs /\ [][NextArgs]_vars

----------------------------------------------------------------------------
(* Properties *)

\* How often value v is on the release list
Count(fg, v) == Cardinality({i \in DOMAIN fg : fg[i] = v})

\* A forwarding node and the nodes below it, down to and including the first
\* node that does not forward
RECURSIVE Chain(_, _)
Chain(ns, n) ==
    IF IsForwarding(ns, n) THEN {n} \cup Chain(ns, ns[n].expr_) ELSE {n}

Discharged(ns, n) == ns[n].handledError_ \/ ns[n].errorDest_ # nullptr

ErrorProneCalls(ns) == {n \in Ids(ns) : IsCall(ns, n) /\ isErrorProne(ns, n)}

C2_IsTemporaryMonotonic ==
    [][\A n \in Ids(nodes) : ~nodes[n].isTemporary_ => ~nodes'[n].isTemporary_]_vars

C2_Witness ==
    \E n \in Ids(nodes) :
        /\ ~nodes[n].isTemporary_ /\ nodes[n].phase = "generated"
        /\ \E m \in Ids(nodes) : nodes[m].isTemporary_

TypesSet == Len(typesPassed) = 1

\* C4, as claimed: once setGenericArgumentTypes has been invoked the two lists
\* have the same size in every later state.
C4_SizesEqualOnceSet ==
    TypesSet => Len(genericArgumentsTypes_) = Len(genericArguments_)

\* C4, amended: genericArgumentTypes() is exactly the vector the latest
\* setGenericArgumentTypes was given (empty before the first call), so never
\* a part of it; addArguments and setMood change neither list;
\* addGenericArgument lengthens the syntax list by one and leaves the types.
\* Hence the sizes are equal after a setGenericArgumentTypes that passes one
\* type per generic argument, and stay equal until the next addGenericArgument.
C4_TypesAreTheVectorPassed ==
    /\ [](TypesSet => genericArgumentsTypes_ = typesPassed[1])
    /\ [](~TypesSet => genericArgumentsTypes_ = <<>>)
    /\ [][(typesPassed' # typesPassed
              /\ Len(typesPassed'[1]) = Len(genericArguments_))
             => Len(genericArgumentsTypes_') = Len(genericArguments_')]_vars
    /\ [][arguments_' # arguments_ \/ mood_' # mood_
             => UNCHANGED <<genericArguments_, genericArgumentsTypes_>>]_vars
    /\ [][genericArguments_' # genericArguments_
             => /\ genericArgumentsTypes_' = genericArgumentsTypes_
                /\ Len(genericArguments_') = Len(genericArguments_) + 1]_vars
    /\ [][(/\ Len(genericArgumentsTypes_) = Len(genericArguments_)
           /\ genericArguments_' = genericArguments_
           /\ typesPassed' = typesPassed)
             => Len(genericArgumentsTypes_') = Len(genericArguments_')]_vars

C4_Witness ==
    /\ TypesSet
    /\ Len(genericArguments_) = MaxGenericArgs
    /\ genericArgumentsTypes_ = <<"object", "integer">>
    /\ Len(arguments_) > 0
    /\ mood_ # "Imperative"

\* C5, as claimed: after the analysis of a node its type never changes.
C5_TypeFixedByAnalysis ==
    [][\A n \in Ids(nodes) :
          nodes[n].phase # "new"
              => nodes'[n].expressionType_ = nodes[n].expressionType_]_vars

\* C5, amended: the type of a node changes only when its analysis completes or
\* by a setExpressionType on it, which changes nothing else and may overwrite
\* the type analysis recorded; every other operation leaves it as it is.
C5_TypeChangesOnlyBySetter ==
    [][\A n \in Ids(nodes) :
          nodes'[n].expressionType_ # nodes[n].expressionType_
              => \/ nodes[n].phase = "new" /\ nodes'[n].phase = "analysed"
                 \/ /\ nodes' = [nodes EXCEPT
                                   ![n].expressionType_ = nodes'[n].expressionType_]
                    /\ UNCHANGED <<root, temporaries>>]_vars

C5_Witness ==
    \E n \in Ids(nodes) :
        /\ nodes[n].kind = "ASTTypeAsValue"
        /\ nodes[n].phase = "generated"
        /\ nodes[n].expressionType_ = "integer"

\* C6: insertNode on a slot holding N makes a node W with N's position and N
\* as its child, puts W into the slot, returns W, leaves N referred to by W
\* alone and N itself unchanged.
C6_InsertNodeWraps ==
    [][Len(nodes') # Len(nodes) =>
          LET W == Len(nodes')
              N == nodes'[W].expr_
          IN  /\ W = Len(nodes) + 1
              /\ N \in Ids(nodes)
              /\ nodes'[W].position = nodes[N].position
              /\ ret' = Ret("insertNode", W, noReturn)
              /\ root = N => root' = W
              /\ root # N => root' = root
              /\ \A m \in Ids(nodes) :
                    /\ nodes[m].expr_ = N => nodes'[m] = [nodes[m] EXCEPT !.expr_ = W]
                    /\ nodes[m].expr_ # N => nodes'[m] = nodes[m]
              /\ Refs(nodes', root', N) = 1
              /\ Refs(nodes', root', W) = 1]_vars

C6_Witness ==
    /\ ret.op = "insertNode"
    /\ root # ret.node
    /\ nodes[ret.node].position = "p2"
    /\ nodes[nodes[ret.node].expr_].position = "p2"
    /\ nodes[root].expr_ = ret.node

\* C7: a size-of node does not produce a temporary object after the memory
\* flow pass and its value is never on the release list, whatever flow
\* category it received and whether or not unsetIsTemporary was called on it.
C7_SizeOfNeverTemporary ==
    \A n \in Ids(nodes) :
        nodes[n].kind = "ASTSizeOf" =>
            /\ nodes[n].phase \in {"flow", "generated"}
                  => ~producesTemporaryObject(nodes, n)
            /\ Count(temporaries, n) = 0

C7_Witness ==
    \E n \in Ids(nodes) :
        /\ nodes[n].kind = "ASTSizeOf"
        /\ nodes[n].phase = "generated"
        /\ nodes[n].isTemporary_
        /\ Len(temporaries) > 0

Fresh(node) ==
    /\ node.expressionType_ = noReturn
    /\ node.isTemporary_
    /\ node.kind \in CallKinds => ~node.handledError_ /\ node.errorDest_ = nullptr

\* C9: every node is constructed with the noReturn type, temporary, and, if
\* it is a call, with the handled-error flag false and no error destination:
\* the nodes of the initial tree and every node insertNode makes.
C9_FreshNodeDefaults ==
    /\ \A n \in Ids(nodes) : Fresh(nodes[n])
    /\ [][Len(nodes') > Len(nodes) => Fresh(nodes'[Len(nodes')])]_vars

C9_Witness ==
    /\ ret.op = "insertNode"
    /\ Fresh(nodes[ret.node])
    /\ ~Fresh(nodes[nodes[ret.node].expr_])
    /\ nodes[nodes[ret.node].expr_].kind \in CallKinds

====
